---- MODULE Spec2Model ----
(***************************************************************************)
(* Model of the packet validators of interledger-service-util              *)
(* (crates/interledger-service-util/src/validator.rs).                     *)
(*                                                                         *)
(* ValidatorService wraps a downstream service `next`.  handle_request     *)
(* (incoming) rejects Prepares that have expired; send_request (outgoing)  *)
(* rejects expired Prepares, bounds the downstream future by a timer and   *)
(* checks the Fulfill against the execution condition.                     *)
(*                                                                         *)
(* Time is measured in seconds.  A request is one call of the validator;   *)
(* the future it returns is polled by the caller (Poll) or dropped (Drop). *)
(* The downstream future resolves at a moment of its own choosing          *)
(* (NextResolve); the timer of tokio's Timeout elapses at some moment at   *)
(* or after its deadline (TimerFire) or fails (TimerError).                *)
(***************************************************************************)
EXTENDS Integers, Naturals, Sequences, FiniteSets, TLC

\* ---------------------------------------------------------------- bounds
\* Seconds by which one Tick advances the clock.
TickSecs == 20

\* Number of Ticks after which the clock stops.
MaxTicks == 2

\* The requests in flight (each is one call of a validator), in the order in
\* which they are made.
ReqOrder == <<"r1", "r2">>
Reqs == {ReqOrder[i] : i \in DOMAIN ReqOrder}

\* Fulfillments the downstream may answer with: b stands for the 32-byte
\* array [b; 32] (validator.rs:152 uses [0; 32], validator.rs:258 [6; 32]).
Fulfillments == {0, 6}

\* Offsets of expires_at from the clock at the call (validator.rs:164, 195:
\* now + 30s, now - 30s), in seconds.
ExpiryOffsets == {0 - TickSecs, 0, TickSecs, 2 * TickSecs}

\* ------------------------------------------------------------- constants
\* StdDuration::from_secs(30), the fallback of the timeout.
FallbackSecs == 30

\* ----------------------------------------------------------------- data
NoValue == [type |-> "None"]

\* SHA-256 of the 32-byte array [b; 32], abbreviated to the first four bytes
\* of the digest (digest(&SHA256, ..) of ring; the digest of [0; 32] is the
\* execution_condition of the tests, 102, 104, 122, 173, ...).
SHA256(b) ==
    CASE b = 0 -> <<102, 104, 122, 173>>
      [] b = 6 -> <<232, 2, 8, 106>>
      [] OTHER -> <<114, 205, 110, 132>>

\* The execution condition the Prepare of request r carries: the digest of
\* [0; 32] for the first request (as in the tests) and the digest of [6; 32]
\* for the others, so that each possible Fulfill matches one request and
\* mismatches the other.
ConditionOf(r) == IF r = ReqOrder[1] THEN SHA256(0) ELSE SHA256(6)

\* RejectBuilder { code, message, triggered_by, data }.build()
RejectBuilder(code, message, triggered_by, data) ==
    [type |-> "Reject", code |-> code, message |-> message,
     triggered_by |-> triggered_by, data |-> data]

\* FulfillBuilder { fulfillment, data }.build()
FulfillBuilder(fulfillment, data) ==
    [type |-> "Fulfill", fulfillment |-> fulfillment, data |-> data]

\* PrepareBuilder { destination, amount, expires_at, execution_condition, data }
PrepareBuilder(expires_at, execution_condition) ==
    [destination |-> "example.destination", amount |-> 100,
     expires_at |-> expires_at, execution_condition |-> execution_condition,
     data |-> "test data"]

\* The Reject the validators build for an expired packet or a timeout.
TimedOutReject == RejectBuilder("R00_TRANSFER_TIMED_OUT", "", "", "")

\* Faulty variant of InvalidFulfillmentReject: the message is left empty.
InvalidFulfillmentRejectNoMessage ==
    RejectBuilder("F09_INVALID_PEER_RESPONSE", "", "", "")

\* The Reject send_request builds for a Fulfill that does not match.
InvalidFulfillmentReject ==
    RejectBuilder("F09_INVALID_PEER_RESPONSE",
                  "Fulfillment did not match condition", "", "")

\* A Reject of the downstream service's own: a peer that timed out, with the
\* code the validators use too but with its other fields filled in.
PeerReject ==
    RejectBuilder("R00_TRANSFER_TIMED_OUT", "peer timed out", "example.peer", "x")

\* What the downstream service may resolve to: any Fulfill, or a Reject.
Responses ==
    {FulfillBuilder(f, "test data") : f \in Fulfillments} \cup {PeerReject}

\* ---------------------------------------------------------------- state
\* ------------------------------------------ ilp-node: the configuration
\* main.rs assembles a config::Config from the environment, stdin, a config
\* file and the command line.  A value is named by the source it came from
\* and the name it had there.
Missing == [from |-> "nowhere"]

ConfigValue(source, name) == [from |-> source, name |-> name]

\* The settings followed here: a top-level string and the two settings of the
\* exchange_rate table, named as the command-line arguments name them.
Leaves == {"ilp_address", "exchange_rate.provider", "exchange_rate.spread"}

\* Keys of the top level of a parsed stdin or config file.
TopKeys == {"ilp_address", "exchange_rate"}

\* Top-level keys whose value is a table.
Tables == {"exchange_rate"}

TopOf(leaf) == IF leaf = "ilp_address" THEN "ilp_address" ELSE "exchange_rate"

LeavesOf(k) == {l \in Leaves : TopOf(l) = k}

\* Arguments with a default_value: clap reports them in matches.args even
\* when the command line does not give them.
Defaults == {"exchange_rate.spread"}

\* Arguments that take no value.  The App defines none.
Flags == {}

\* Variables of the environment with the prefix ILP_: ILP_ADDRESS,
\* ILP_ILP_ADDRESS, ILP_EXCHANGE_RATE__PROVIDER, ILP_EXCHANGE_RATE__SPREAD.
EnvNames == Leaves \cup {"address"}

\* Keys under which Config::set stores an override.
OverrideKeys == TopKeys \cup Leaves

\* What the process is started with.
Inputs ==
    [env   : SUBSET EnvNames,
     stdin : [status : {"tty", "unparsable", "invalid_key"}, keys : {{}}]
                 \cup [status : {"parsed"}, keys : SUBSET Leaves],
     file  : [status : {"none", "unreadable", "unreadable_ilp_node", "invalid_key"},
              keys : {{}}]
                 \cup [status : {"parsed"}, keys : SUBSET Leaves],
     argv  : [precheck : {"ok", "err"}, matches : {"exit"}, args : {{}}]
                 \cup [precheck : {"ok"}, matches : {"ok"}, args : SUBSET Leaves]]

NoInputs ==
    [env   |-> {},
     stdin |-> [status |-> "tty", keys |-> {}],
     file  |-> [status |-> "none", keys |-> {}],
     argv  |-> [precheck |-> "ok", matches |-> "exit", args |-> {}]]

\* Config::new()
NoConfig ==
    [env |-> [n \in EnvNames |-> Missing],
     overrides |-> [k \in OverrideKeys |-> Missing]]

\* Config::get of a setting: the cache is rebuilt from the merged Environment
\* and then the overrides; an override holding a table is merged into the
\* table below it field by field, any other override replaces the value.
Get(cfg, leaf) ==
    LET top == TopOf(leaf)
    IN IF top \in Tables
       THEN IF cfg.overrides[leaf] # Missing
            THEN cfg.overrides[leaf]
            ELSE IF cfg.overrides[top] # Missing /\ cfg.overrides[top].fields[leaf] # Missing
                 THEN cfg.overrides[top].fields[leaf]
                 ELSE cfg.env[leaf]
       ELSE IF cfg.overrides[leaf] # Missing
            THEN cfg.overrides[leaf]
            ELSE cfg.env[leaf]

\* config.get_str(key).is_ok(): the key is found and Value::into_str converts
\* it.  A table is not converted, so the call is an Err for a table as it is
\* for a key that is missing.
get_str(cfg, key) ==
    IF key \in Tables
    THEN FALSE
    ELSE IF key \in Leaves THEN Get(cfg, key) # Missing
         ELSE cfg.env[key] # Missing

\* config.set(key, value): the override stored under the key is replaced.
Set(cfg, key, value) == [cfg EXCEPT !.overrides[key] = value]

\* The map a parsed stdin or config file collects to, for a source defining
\* the settings in keys.
Collect(source, keys) ==
    [k \in TopKeys |->
        IF k \in Tables
        THEN IF LeavesOf(k) \cap keys = {}
             THEN Missing
             ELSE [from |-> source, name |-> k,
                   fields |-> [l \in LeavesOf(k) |->
                                  IF l \in keys THEN ConfigValue(source, l)
                                  ELSE Missing]]
        ELSE IF k \in keys THEN ConfigValue(source, k) ELSE Missing]

\* for (k, v) in hash { if config.get_str(&k).is_err() { config.set(&k, v)?; } }
\* The keys of a hash are distinct top-level keys, so the iterations do not
\* affect one another.
MergeHash(cfg, hash) ==
    [cfg EXCEPT !.overrides =
        [k \in OverrideKeys |->
            IF k \in TopKeys /\ hash[k] # Missing /\ ~get_str(cfg, k)
            THEN hash[k]
            ELSE @[k]]]

\* value.vals[0], or true for a flag
ArgValue(key) ==
    IF key \in Flags THEN [from |-> "args", name |-> key, flag |-> TRUE]
    ELSE ConfigValue("args", key)

\* for (key, value) in &matches.args { if config.get_str(key).is_ok() { continue; } .. }
MergeMatches(cfg, args) ==
    [cfg EXCEPT !.overrides =
        [k \in OverrideKeys |->
            IF k \in args /\ ~get_str(cfg, k) THEN ArgValue(k) ELSE @[k]]]

VARIABLES
    now,      \* Utc::now(), in seconds
    pc,       \* per request: "idle", "pending" (future returned), "done", "dropped"
    request,  \* per request: the request given to the validator
    future,   \* per request: the future the validator returned
    next,     \* per request: the downstream service's call and its future
    timer,    \* per request: the timer of the Timeout wrapper
    outcome,  \* per request: what the caller received, and when
    log,      \* per request: number of error! records emitted
    main_pc,  \* ilp-node: where main is
    inputs,   \* ilp-node: environment, stdin, config file and command line
    config,   \* ilp-node: the Config being assembled
    app_env,  \* ilp-node: arguments given a value by set_app_env
    merged,   \* ilp-node: the sources merged so far, in order
    effects   \* ilp-node: what main has printed and called so far, in order

nodeVars == <<main_pc, inputs, config, app_env, merged, effects>>

vars == <<now, pc, request, future, next, timer, outcome, log,
          main_pc, inputs, config, app_env, merged, effects>>

NoRequest == [kind |-> "none"]
NoFuture  == [kind |-> "none"]
NoNext    == [calls |-> 0, state |-> "none", request |-> NoRequest,
              result |-> NoValue, late |-> FALSE, before_timer |-> FALSE]
NoTimer   == [armed |-> 0, state |-> "none", live |-> FALSE, duration |-> 0,
              deadline |-> 0]
NoOutcome == [result |-> NoValue, late |-> FALSE, checks |-> 0]

\* No request has been made yet.
ValidatorInit ==
    /\ now = 0
    /\ pc = [r \in Reqs |-> "idle"]
    /\ request = [r \in Reqs |-> NoRequest]
    /\ future = [r \in Reqs |-> NoFuture]
    /\ next = [r \in Reqs |-> NoNext]
    /\ timer = [r \in Reqs |-> NoTimer]
    /\ outcome = [r \in Reqs |-> NoOutcome]
    /\ log = [r \in Reqs |-> 0]

\* ilp-node is not running.
NodeOff ==
    /\ main_pc = "off"
    /\ inputs = NoInputs
    /\ config = NoConfig
    /\ app_env = {}
    /\ merged = <<>>
    /\ effects = <<>>

Init == ValidatorInit /\ NodeOff

\* Request r is the next one to be made.
IsNextCall(r) ==
    \E i \in DOMAIN ReqOrder :
        /\ ReqOrder[i] = r
        /\ pc[r] = "idle"
        /\ \A j \in 1..(i - 1) : pc[ReqOrder[j]] # "idle"

\* ------------------------------------------------ handle_request (incoming)
\* Faulty variant of IncomingAdmits: the comparison is the wrong way round.
IncomingAdmitsInverted(expires_at, t) == expires_at <= t

\* Faulty variant of IncomingAdmits: a Prepare expiring right now is refused.
IncomingAdmitsStrict(expires_at, t) == expires_at > t

\* validator.rs:52  `expires_at >= Utc::now()`
IncomingAdmits(expires_at, t) == expires_at >= t

\* Faulty variant of CallNext: the Prepare is forwarded with its expiry
\* shortened.
CallNextShortened(n, req) ==
    [n EXCEPT !.calls = @ + 1, !.state = "pending",
              !.request = [req EXCEPT !.prepare.expires_at = @ - 1]]

\* self.next.handle_request(request) / self.next.send_request(request)
CallNext(n, req) ==
    [n EXCEPT !.calls = @ + 1, !.state = "pending", !.request = req]

HandleRequest(r, prepare) ==
    LET req == [kind |-> "incoming", from |-> 0, to |-> NoValue,
                prepare |-> prepare, called_at |-> now]
    IN /\ IsNextCall(r)
       /\ pc' = [pc EXCEPT ![r] = "pending"]
       /\ request' = [request EXCEPT ![r] = req]
       /\ IF IncomingAdmits(prepare.expires_at, now)
          THEN /\ next' = [next EXCEPT ![r] = CallNext(@, req)]
               /\ future' = [future EXCEPT ![r] = [kind |-> "next"]]
               /\ log' = log
          ELSE /\ next' = next
               /\ future' = [future EXCEPT ![r] =
                                [kind |-> "err", value |-> TimedOutReject]]
               /\ log' = [log EXCEPT ![r] = @ + 1]
       /\ UNCHANGED <<now, timer, outcome>>
       /\ UNCHANGED nodeVars

\* --------------------------------------------------- send_request (outgoing)
\* Faulty variant of OutgoingAdmits: a Prepare with no time left is forwarded.
OutgoingAdmitsZero(time_left) == time_left >= 0

\* validator.rs:85  `time_left > Duration::seconds(0)`
OutgoingAdmits(time_left) == time_left > 0

\* chrono's Duration::to_std: fails for a negative duration.
ToStd(d) == IF d < 0 THEN [ok |-> FALSE, secs |-> 0] ELSE [ok |-> TRUE, secs |-> d]

\* Faulty variant of TimerDuration: the fallback caps the duration.
TimerDurationCapped(time_left) ==
    IF ToStd(time_left).ok /\ ToStd(time_left).secs <= FallbackSecs
    THEN ToStd(time_left).secs ELSE FallbackSecs

\* validator.rs:89  time_left.to_std().unwrap_or(StdDuration::from_secs(30))
TimerDuration(time_left) ==
    IF ToStd(time_left).ok THEN ToStd(time_left).secs ELSE FallbackSecs

\* .timeout(d): Timeout::new arms one Delay with deadline Instant::now() + d
ArmTimer(tm, d) ==
    [tm EXCEPT !.armed = @ + 1, !.state = "armed", !.live = TRUE,
               !.duration = d, !.deadline = now + d]

SendRequest(r, prepare) ==
    LET req == [kind |-> "outgoing", from |-> 0, to |-> 1,
                prepare |-> prepare, called_at |-> now]
        condition == prepare.execution_condition
        time_left == prepare.expires_at - now
    IN /\ IsNextCall(r)
       /\ pc' = [pc EXCEPT ![r] = "pending"]
       /\ request' = [request EXCEPT ![r] = req]
       /\ IF OutgoingAdmits(time_left)
          THEN /\ next' = [next EXCEPT ![r] = CallNext(@, req)]
               /\ timer' = [timer EXCEPT ![r] = ArmTimer(@, TimerDuration(time_left))]
               /\ future' = [future EXCEPT ![r] =
                                [kind |-> "timeout", condition |-> condition,
                                 time_left |-> time_left]]
               /\ log' = log
          ELSE /\ next' = next
               /\ timer' = timer
               /\ future' = [future EXCEPT ![r] =
                                [kind |-> "err", value |-> TimedOutReject]]
               /\ log' = [log EXCEPT ![r] = @ + 1]
       /\ UNCHANGED <<now, outcome>>
       /\ UNCHANGED nodeVars

\* ------------------------------------------------------------ environment
\* The clock is past the Prepare's expires_at.
Expired(prepare) == now > prepare.expires_at

\* The downstream future resolves, with a Fulfill or a Reject.
NextResolve(r, res) ==
    /\ pc[r] = "pending"
    /\ next[r].state = "pending"
    /\ next' = [next EXCEPT ![r] =
                   [@ EXCEPT !.state = "ready", !.result = res,
                             !.late = Expired(request[r].prepare),
                             !.before_timer = (timer[r].state = "armed")]]
    /\ UNCHANGED <<now, pc, request, future, timer, outcome, log>>
    /\ UNCHANGED nodeVars

\* The Delay of the Timeout elapses: at its deadline or any time after it.
TimerFire(r) ==
    /\ pc[r] = "pending"
    /\ timer[r].state = "armed"
    /\ now >= timer[r].deadline
    /\ timer' = [timer EXCEPT ![r] = [@ EXCEPT !.state = "elapsed"]]
    /\ UNCHANGED <<now, pc, request, future, next, outcome, log>>
    /\ UNCHANGED nodeVars

\* The Delay fails (the timer is shut down or at capacity).
TimerError(r) ==
    /\ pc[r] = "pending"
    /\ timer[r].state = "armed"
    /\ timer' = [timer EXCEPT ![r] = [@ EXCEPT !.state = "error"]]
    /\ UNCHANGED <<now, pc, request, future, next, outcome, log>>
    /\ UNCHANGED nodeVars

\* The clock advances.
Tick ==
    /\ now < MaxTicks * TickSecs
    /\ now' = now + TickSecs
    /\ UNCHANGED <<pc, request, future, next, timer, outcome, log>>
    /\ UNCHANGED nodeVars

\* ------------------------------------------------- polling the futures
\* Faulty variant of TimeoutPoll: the Delay is never polled.
TimeoutPollNoTimer(n, tm) ==
    IF n.state = "ready"
    THEN IF n.result.type = "Fulfill"
         THEN [tag |-> "Ok", value |-> n.result]
         ELSE [tag |-> "ErrInner", value |-> n.result]
    ELSE [tag |-> "NotReady", value |-> NoValue]

\* Faulty variant of TimeoutPoll: the Delay is polled before the wrapped future.
TimeoutPollTimerFirst(n, tm) ==
    CASE tm.state = "elapsed" -> [tag |-> "ErrElapsed", value |-> NoValue]
      [] tm.state = "error"   -> [tag |-> "ErrTimer", value |-> NoValue]
      [] n.state = "ready" /\ n.result.type = "Fulfill" ->
            [tag |-> "Ok", value |-> n.result]
      [] n.state = "ready" -> [tag |-> "ErrInner", value |-> n.result]
      [] OTHER -> [tag |-> "NotReady", value |-> NoValue]

\* Timeout::poll: the wrapped future is polled first, the Delay only when the
\* wrapped future is not ready.
TimeoutPoll(n, tm) ==
    IF n.state = "ready"
    THEN IF n.result.type = "Fulfill"
         THEN [tag |-> "Ok", value |-> n.result]
         ELSE [tag |-> "ErrInner", value |-> n.result]
    ELSE CASE tm.state = "elapsed" -> [tag |-> "ErrElapsed", value |-> NoValue]
           [] tm.state = "error"   -> [tag |-> "ErrTimer", value |-> NoValue]
           [] OTHER                -> [tag |-> "NotReady", value |-> NoValue]

\* Faulty variant of MapErr: a failure of the timer is not turned into a
\* Reject and reaches the caller as it is.
MapErrTimerUnhandled(p) ==
    CASE p.tag = "ErrInner" -> [tag |-> "Err", value |-> p.value, logs |-> 0, checks |-> 0]
      [] p.tag = "ErrElapsed" ->
            [tag |-> "Err", value |-> TimedOutReject, logs |-> 1, checks |-> 0]
      [] OTHER -> [tag |-> p.tag, value |-> p.value, logs |-> 0, checks |-> 0]

\* Faulty variant of MapErr: a failure of the timer is reported with a code
\* of its own.
MapErrTimerInternal(p) ==
    CASE p.tag = "ErrInner" -> [tag |-> "Err", value |-> p.value, logs |-> 0, checks |-> 0]
      [] p.tag = "ErrElapsed" ->
            [tag |-> "Err", value |-> TimedOutReject, logs |-> 1, checks |-> 0]
      [] p.tag = "ErrTimer" ->
            [tag |-> "Err", value |-> RejectBuilder("T00_INTERNAL_ERROR", "", "", ""),
             logs |-> 1, checks |-> 0]
      [] OTHER -> [tag |-> p.tag, value |-> p.value, logs |-> 0, checks |-> 0]

\* Faulty variant of MapErr: the timeout is not logged.
MapErrSilent(p) ==
    CASE p.tag = "ErrInner" -> [tag |-> "Err", value |-> p.value, logs |-> 0, checks |-> 0]
      [] p.tag \in {"ErrElapsed", "ErrTimer"} ->
            [tag |-> "Err", value |-> TimedOutReject, logs |-> 0, checks |-> 0]
      [] OTHER -> [tag |-> p.tag, value |-> p.value, logs |-> 0, checks |-> 0]

\* Faulty variant of MapErr: every error becomes the timeout Reject.
MapErrAlwaysTimedOut(p) ==
    IF p.tag \in {"ErrInner", "ErrElapsed", "ErrTimer"}
    THEN [tag |-> "Err", value |-> TimedOutReject, logs |-> 1, checks |-> 0]
    ELSE [tag |-> p.tag, value |-> p.value, logs |-> 0, checks |-> 0]

\* validator.rs:90-107  .map_err(|err| ...): err.into_inner() is Some(reject)
\* for an error of the wrapped future and None for the timer's.
MapErr(p) ==
    CASE p.tag = "ErrInner" -> [tag |-> "Err", value |-> p.value, logs |-> 0, checks |-> 0]
      [] p.tag \in {"ErrElapsed", "ErrTimer"} ->
            [tag |-> "Err", value |-> TimedOutReject, logs |-> 1, checks |-> 0]
      [] OTHER -> [tag |-> p.tag, value |-> p.value, logs |-> 0, checks |-> 0]

\* Faulty variant of ConditionMatches: only the lengths are compared.
ConditionMatchesLength(fulfillment, condition) ==
    Len(SHA256(fulfillment)) = Len(condition)

\* validator.rs:109-110  generated_condition.as_ref() == condition
ConditionMatches(fulfillment, condition) == SHA256(fulfillment) = condition

\* Faulty variant of AndThen: the Fulfill is returned without the check.
AndThenUnchecked(p, condition) ==
    IF p.tag = "Ok"
    THEN [tag |-> "Ok", value |-> p.value, logs |-> 0, checks |-> 0]
    ELSE p

\* validator.rs:108-122  .and_then(|fulfill| ...)
AndThen(p, condition) ==
    IF p.tag = "Ok"
    THEN IF ConditionMatches(p.value.fulfillment, condition)
         THEN [tag |-> "Ok", value |-> p.value, logs |-> 0, checks |-> 1]
         ELSE [tag |-> "Err", value |-> InvalidFulfillmentReject, logs |-> 1,
               checks |-> 1]
    ELSE p

\* The condition captured by the most recent send_request call.
LatestCondition ==
    LET called == {i \in DOMAIN ReqOrder : future[ReqOrder[i]].kind = "timeout"}
        last == CHOOSE i \in called : \A j \in called : j <= i
    IN future[ReqOrder[last]].condition

\* Faulty variant of PollFuture: the condition is kept in the validator and
\* overwritten by every call, instead of being captured by each future.
PollFutureSharedCondition(r) ==
    CASE future[r].kind = "err" ->
            [tag |-> "Err", value |-> future[r].value, logs |-> 0, checks |-> 0]
      [] future[r].kind = "next" ->
            IF next[r].state = "ready"
            THEN [tag |-> IF next[r].result.type = "Fulfill" THEN "Ok" ELSE "Err",
                  value |-> next[r].result, logs |-> 0, checks |-> 0]
            ELSE [tag |-> "NotReady", value |-> NoValue, logs |-> 0, checks |-> 0]
      [] future[r].kind = "timeout" ->
            AndThen(MapErr(TimeoutPoll(next[r], timer[r])), LatestCondition)
      [] OTHER -> [tag |-> "NotReady", value |-> NoValue, logs |-> 0, checks |-> 0]

\* Polling the future a validator returned.
PollFuture(r) ==
    CASE future[r].kind = "err" ->
            [tag |-> "Err", value |-> future[r].value, logs |-> 0, checks |-> 0]
      [] future[r].kind = "next" ->
            IF next[r].state = "ready"
            THEN [tag |-> IF next[r].result.type = "Fulfill" THEN "Ok" ELSE "Err",
                  value |-> next[r].result, logs |-> 0, checks |-> 0]
            ELSE [tag |-> "NotReady", value |-> NoValue, logs |-> 0, checks |-> 0]
      [] future[r].kind = "timeout" ->
            AndThen(MapErr(TimeoutPoll(next[r], timer[r])), future[r].condition)
      [] OTHER -> [tag |-> "NotReady", value |-> NoValue, logs |-> 0, checks |-> 0]

\* Faulty variant of Release: the downstream future is left as it is.
ReleaseLeak(n) == n

\* A future that completed or was dropped drops what it owns: the downstream
\* future and the Delay.
Release(n) == IF n.state \in {"pending", "ready"}
              THEN [n EXCEPT !.state = "dropped"]
              ELSE n

Cancel(tm) == [tm EXCEPT !.live = FALSE]

\* The caller polls the returned future and it is ready.
Poll(r) ==
    LET p == PollFuture(r)
    IN /\ pc[r] = "pending"
       /\ p.tag # "NotReady"
       /\ pc' = [pc EXCEPT ![r] = "done"]
       /\ outcome' = [outcome EXCEPT ![r] =
                         [result |-> p.value, late |-> Expired(request[r].prepare),
                          checks |-> p.checks]]
       /\ log' = [log EXCEPT ![r] = @ + p.logs]
       /\ next' = [next EXCEPT ![r] = Release(@)]
       /\ timer' = [timer EXCEPT ![r] = Cancel(@)]
       /\ UNCHANGED <<now, request, future>>
       /\ UNCHANGED nodeVars

\* The caller drops the returned future before it resolved.
Drop(r) ==
    /\ pc[r] = "pending"
    /\ pc' = [pc EXCEPT ![r] = "dropped"]
    /\ next' = [next EXCEPT ![r] = Release(@)]
    /\ timer' = [timer EXCEPT ![r] = Cancel(@)]
    /\ UNCHANGED <<now, request, future, outcome, log>>
    /\ UNCHANGED nodeVars

\* ------------------------------------------------------- specification
Prepares(r) ==
    {PrepareBuilder(now + off, ConditionOf(r)) : off \in ExpiryOffsets}

Next ==
    \/ \E r \in Reqs : \E p \in Prepares(r) : HandleRequest(r, p)
    \/ \E r \in Reqs : \E p \in Prepares(r) : SendRequest(r, p)
    \/ \E r \in Reqs, res \in Responses : NextResolve(r, res)
    \/ \E r \in Reqs : TimerFire(r)
    \/ \E r \in Reqs : TimerError(r)
    \/ \E r \in Reqs : Poll(r)
    \/ \E r \in Reqs : Drop(r)
    \/ Tick

Spec == Init /\ [][Next]_vars

\* ------------------------------------- specification with fairness
\* The clock keeps advancing past the horizon of Tick while the deadline of an
\* armed timer is still ahead.
TickToDeadline ==
    /\ now >= MaxTicks * TickSecs
    /\ \E r \in Reqs :
           pc[r] = "pending" /\ timer[r].state = "armed" /\ now < timer[r].deadline
    /\ now' = now + TickSecs
    /\ UNCHANGED <<pc, request, future, next, timer, outcome, log>>
    /\ UNCHANGED nodeVars

\* A call is made while the calls before it are in flight and before the
\* clock has advanced since they were made.
Overlaps(r) ==
    \A q \in Reqs \ {r} :
        pc[q] # "idle" => (pc[q] = "pending" /\ request[q].called_at = now)

\* The steps of overlapping outgoing requests whose futures the caller keeps
\* polling.
FairNext ==
    \/ \E r \in Reqs : \E p \in Prepares(r) : Overlaps(r) /\ SendRequest(r, p)
    \/ \E r \in Reqs, res \in Responses : NextResolve(r, res)
    \/ \E r \in Reqs : TimerFire(r)
    \/ \E r \in Reqs : TimerError(r)
    \/ \E r \in Reqs : Poll(r)
    \/ Tick
    \/ TickToDeadline

\* Time passes, a timer whose deadline has come fires, and the task holding
\* a future that is ready is polled.  The downstream owes nothing.
FairSpec ==
    /\ Init
    /\ [][FairNext]_vars
    /\ WF_vars(Tick)
    /\ WF_vars(TickToDeadline)
    /\ \A r \in Reqs : WF_vars(TimerFire(r))
    /\ \A r \in Reqs : WF_vars(Poll(r))

\* ------------------------------------------------------ ilp-node: main
validatorVars == <<now, pc, request, future, next, timer, outcome, log>>

\* let mut config = get_env_config("ilp");
get_env_config(prefix) ==
    LET env == [n \in EnvNames |->
                   IF n \in inputs.env THEN ConfigValue("env", n) ELSE Missing]
        collected == [NoConfig EXCEPT !.env = env]
    IN /\ main_pc = "main"
       /\ config' = IF prefix = "ilp" /\ get_str(collected, "address")
                    THEN Set(collected, "ilp_address", collected.env["address"])
                    ELSE collected
       /\ merged' = Append(merged, "env")
       /\ main_pc' = "precheck"
       /\ UNCHANGED <<inputs, app_env, effects>>
       /\ UNCHANGED validatorVars

\* if let Ok((path, config_file)) = precheck_arguments(app.clone())
precheck_arguments ==
    /\ main_pc = "precheck"
    /\ main_pc' = IF inputs.argv.precheck = "ok" THEN "stdin" ELSE "matches"
    /\ UNCHANGED <<inputs, config, app_env, merged, effects>>
    /\ UNCHANGED validatorVars

\* The ConfigError a failed merge returns: config.set refuses a key that is
\* not a path expression, File::collect fails on a file it cannot read.
ConfigErrorOf(status) ==
    IF status = "invalid_key" THEN "PathParse" ELSE "Foreign"

\* output_config_error(error, None): no config path.
NoConfigPath == "None"

\* The path given as the config argument.
ConfigPathOf(status) ==
    IF status = "unreadable_ilp_node" THEN "ilp-node" ELSE "config.json"

\* output_config_error(error, config_path): one line on stdout.
output_config_error(error, config_path) ==
    LET is_config_path_ilp_node == config_path = "ilp-node"
    IN CASE error = "PathParse" -> "println: Error in parsing config"
         [] is_config_path_ilp_node -> "println: cargo run ilp-node is deprecated"
         [] OTHER -> "println: Error"

\* if !is_fd_tty(0) { if let Err(error) = merge_std_in(&mut config) { .. return; } }
merge_std_in ==
    /\ main_pc = "stdin"
    /\ IF inputs.stdin.status = "tty"
       THEN /\ main_pc' = "file"
            /\ UNCHANGED <<config, merged, effects>>
       ELSE /\ merged' = Append(merged, "stdin")
            /\ CASE inputs.stdin.status = "parsed" ->
                      /\ config' = MergeHash(config, Collect("stdin", inputs.stdin.keys))
                      /\ main_pc' = "file"
                      /\ effects' = effects
                 [] inputs.stdin.status = "unparsable" ->
                      /\ config' = config
                      /\ main_pc' = "file"
                      /\ effects' = effects
                 [] OTHER ->
                      /\ config' = config
                      /\ effects' = Append(effects,
                             output_config_error(ConfigErrorOf(inputs.stdin.status),
                                                 NoConfigPath))
                      /\ main_pc' = "returned"
    /\ UNCHANGED <<inputs, app_env>>
    /\ UNCHANGED validatorVars

\* Faulty variant of merge_config_file: an error of the merge is reported
\* and main carries on.
merge_config_file_carries_on ==
    /\ main_pc = "file"
    /\ IF inputs.file.status = "none"
       THEN /\ main_pc' = "app_env"
            /\ UNCHANGED <<config, merged, effects>>
       ELSE /\ merged' = Append(merged, "file")
            /\ IF inputs.file.status = "parsed"
               THEN /\ config' = MergeHash(config, Collect("file", inputs.file.keys))
                    /\ main_pc' = "app_env"
                    /\ effects' = effects
               ELSE /\ config' = config
                    /\ effects' = Append(effects,
                           output_config_error(ConfigErrorOf(inputs.file.status),
                                               ConfigPathOf(inputs.file.status)))
                    /\ main_pc' = "app_env"
    /\ UNCHANGED <<inputs, app_env>>
    /\ UNCHANGED validatorVars

\* if let Some(ref config_path) = config_file {
\*     if let Err(error) = merge_config_file(config_path, &mut config) { .. return; } }
merge_config_file ==
    /\ main_pc = "file"
    /\ IF inputs.file.status = "none"
       THEN /\ main_pc' = "app_env"
            /\ UNCHANGED <<config, merged, effects>>
       ELSE /\ merged' = Append(merged, "file")
            /\ IF inputs.file.status = "parsed"
               THEN /\ config' = MergeHash(config, Collect("file", inputs.file.keys))
                    /\ main_pc' = "app_env"
                    /\ effects' = effects
               ELSE /\ config' = config
                    /\ effects' = Append(effects,
                           output_config_error(ConfigErrorOf(inputs.file.status),
                                               ConfigPathOf(inputs.file.status)))
                    /\ main_pc' = "returned"
    /\ UNCHANGED <<inputs, app_env>>
    /\ UNCHANGED validatorVars

\* set_app_env(&config, &mut app, &path, path.len());
set_app_env ==
    /\ main_pc = "app_env"
    /\ app_env' = {l \in Leaves : get_str(config, l)}
    /\ main_pc' = "matches"
    /\ UNCHANGED <<inputs, config, merged, effects>>
    /\ UNCHANGED validatorVars

\* let matches = app.clone().get_matches(); merge_args(&mut config, &matches);
\* get_matches ends the process when the command line is not accepted.
merge_args ==
    /\ main_pc = "matches"
    /\ IF inputs.argv.matches = "exit"
       THEN /\ main_pc' = "exited"
            /\ UNCHANGED <<config, merged>>
       ELSE /\ config' = MergeMatches(config, inputs.argv.args \cup app_env \cup Defaults)
            /\ merged' = Append(merged, "args")
            /\ main_pc' = "merged"
    /\ effects' = Append(effects, "get_matches")
    /\ UNCHANGED <<inputs, app_env>>
    /\ UNCHANGED validatorVars

\* config.try_into::<InterledgerNode>().expect(..); node.serve().await.unwrap();
\* futures::future::pending().await
serve ==
    /\ main_pc = "merged"
    /\ \E result \in {"try_into Err", "serve Err", "serve Ok"} :
           /\ main_pc' = IF result = "serve Ok" THEN "serving" ELSE "panicked"
           /\ effects' = IF result = "try_into Err"
                         THEN Append(effects, "try_into")
                         ELSE effects \o <<"try_into", "serve", result>>
    /\ UNCHANGED <<inputs, config, app_env, merged>>
    /\ UNCHANGED validatorVars

\* main is entered with any environment, stdin, config file and command line.
InitConfig ==
    /\ ValidatorInit
    /\ main_pc = "main"
    /\ inputs \in Inputs
    /\ config = NoConfig
    /\ app_env = {}
    /\ merged = <<>>
    /\ effects = <<>>

NextConfig ==
    \/ get_env_config("ilp")
    \/ precheck_arguments
    \/ merge_std_in
    \/ merge_config_file
    \/ set_app_env
    \/ merge_args
    \/ serve

SpecConfig == InitConfig /\ [][NextConfig]_vars

\* ------------------------------------------------------------- properties
Incoming(r) == request[r].kind = "incoming"
Outgoing(r) == request[r].kind = "outgoing"
Called(r)   == pc[r] # "idle"
Done(r)     == pc[r] = "done"

\* expires_at - now at the call of request r.
TimeLeftAtCall(r) == request[r].prepare.expires_at - request[r].called_at

\* The downstream future of r resolved, and did so before the timer fired.
ResolvedBeforeTimer(r) ==
    next[r].result # NoValue /\ next[r].before_timer

\* The downstream future of r resolved after the Prepare's expires_at.
ResolvedLate(r) == next[r].result # NoValue /\ next[r].late

\* C1: a Fulfill that send_request resolves to hashes (SHA-256) to the
\* execution_condition of the Prepare of the same request.
C1_FulfillMatchesCondition ==
    \A r \in Reqs :
        (Outgoing(r) /\ outcome[r].result.type = "Fulfill")
            => SHA256(outcome[r].result.fulfillment)
                   = request[r].prepare.execution_condition

\* C1 witness: an outgoing request resolved to a Fulfill while another
\* Fulfill, not matching the condition, was possible.
C1_Witness ==
    \E r \in Reqs :
        /\ Outgoing(r) /\ Done(r)
        /\ outcome[r].result.type = "Fulfill"
        /\ next[r].calls = 1

\* C2: send_request never returns a Fulfill after the Prepare's expires_at:
\* when the timer has fired and the downstream resolves with a Fulfill after
\* expires_at, the caller receives a Reject (R00) and not the Fulfill,
\* whenever the returned future is polled.
C2_NoFulfillAfterExpiry ==
    \A r \in Reqs :
        (/\ Outgoing(r) /\ Done(r) /\ ResolvedLate(r)
         /\ timer[r].state = "elapsed"
         /\ next[r].result.type = "Fulfill")
            => outcome[r].result.type # "Fulfill"

\* C3: an incoming Prepare whose expires_at is strictly before the time of the
\* call resolves at once to Reject R00 with empty message, triggered_by and
\* data, and the downstream handler is never invoked.
C3_ExpiredIncomingRejected ==
    \A r \in Reqs :
        (Incoming(r) /\ Called(r) /\ TimeLeftAtCall(r) < 0) =>
            /\ next[r].calls = 0
            /\ next[r].state = "none"
            /\ future[r] = [kind |-> "err", value |-> TimedOutReject]
            /\ pc[r] = "pending" =>
                   PollFuture(r) = [tag |-> "Err", value |-> TimedOutReject,
                                    logs |-> 0, checks |-> 0]
            /\ Done(r) => outcome[r].result =
                   [type |-> "Reject", code |-> "R00_TRANSFER_TIMED_OUT",
                    message |-> "", triggered_by |-> "", data |-> ""]

\* C3 witness: an expired incoming Prepare was rejected with R00.
C3_Witness ==
    \E r \in Reqs :
        /\ Incoming(r) /\ Done(r) /\ TimeLeftAtCall(r) < 0
        /\ outcome[r].result.code = "R00_TRANSFER_TIMED_OUT"

\* C4: an incoming Prepare with expires_at >= now at the call reaches the
\* downstream handler exactly once and the caller receives the downstream's
\* result unchanged; no timer is armed and no condition check is applied.
C4_IncomingPassThrough ==
    \A r \in Reqs :
        (Incoming(r) /\ Called(r) /\ TimeLeftAtCall(r) >= 0) =>
            /\ next[r].calls = 1
            /\ next[r].request = request[r]
            /\ timer[r] = NoTimer
            /\ future[r].kind = "next"
            /\ Done(r) => /\ next[r].result \in Responses
                          /\ outcome[r].result = next[r].result

\* C4 witness: an incoming request admitted exactly at expires_at = now
\* received a Fulfill that arrived after expires_at and does not match the
\* condition.
C4_Witness ==
    \E r \in Reqs :
        /\ Incoming(r) /\ Done(r) /\ TimeLeftAtCall(r) = 0
        /\ ResolvedLate(r)
        /\ outcome[r].result.type = "Fulfill"
        /\ SHA256(outcome[r].result.fulfillment)
               # request[r].prepare.execution_condition

\* C5: an outgoing Prepare with expires_at - now <= 0 at the call resolves to
\* Reject R00 with empty message, triggered_by and data; the downstream
\* handler is not invoked and no timer is armed.
C5_ExpiredOutgoingRejected ==
    \A r \in Reqs :
        (Outgoing(r) /\ Called(r) /\ TimeLeftAtCall(r) <= 0) =>
            /\ next[r].calls = 0
            /\ next[r].state = "none"
            /\ timer[r] = NoTimer
            /\ future[r] = [kind |-> "err", value |-> TimedOutReject]
            /\ Done(r) => outcome[r].result =
                   [type |-> "Reject", code |-> "R00_TRANSFER_TIMED_OUT",
                    message |-> "", triggered_by |-> "", data |-> ""]

\* C5 witness: an outgoing Prepare with expires_at = now was rejected with R00.
C5_Witness ==
    \E r \in Reqs :
        /\ Outgoing(r) /\ Done(r) /\ TimeLeftAtCall(r) = 0
        /\ outcome[r].result.code = "R00_TRANSFER_TIMED_OUT"

\* C6: when the downstream handler of an outgoing request takes strictly
\* longer than time_left to resolve, send_request resolves to Reject R00 with
\* empty fields and what the downstream produced is not delivered.
C6_SlowDownstreamTimesOut ==
    \A r \in Reqs :
        (Outgoing(r) /\ Done(r) /\ ResolvedLate(r) /\ timer[r].state = "elapsed")
            => /\ outcome[r].result = TimedOutReject
               /\ outcome[r].result # next[r].result

\* C7: when the downstream resolves, before the timer fires, with a Fulfill
\* whose SHA-256 differs from the execution_condition, send_request resolves
\* to Reject F09 with message "Fulfillment did not match condition" and empty
\* triggered_by and data.
C7_MismatchRejectedF09 ==
    \A r \in Reqs :
        (/\ Outgoing(r) /\ Done(r) /\ ResolvedBeforeTimer(r)
         /\ next[r].result.type = "Fulfill"
         /\ SHA256(next[r].result.fulfillment)
                # request[r].prepare.execution_condition)
            => outcome[r].result =
                   [type |-> "Reject", code |-> "F09_INVALID_PEER_RESPONSE",
                    message |-> "Fulfillment did not match condition",
                    triggered_by |-> "", data |-> ""]

\* C7 witness: a mismatching Fulfill that arrived before the timer fired was
\* answered with F09.
C7_Witness ==
    \E r \in Reqs :
        /\ Outgoing(r) /\ Done(r) /\ ResolvedBeforeTimer(r)
        /\ next[r].result.type = "Fulfill"
        /\ SHA256(next[r].result.fulfillment)
               # request[r].prepare.execution_condition
        /\ outcome[r].result.code = "F09_INVALID_PEER_RESPONSE"

\* C8: when the downstream resolves, before the timer fires, with a Fulfill
\* whose SHA-256 equals the execution_condition, send_request resolves to
\* exactly that Fulfill and the downstream handler was invoked exactly once.
C8_MatchingFulfillReturned ==
    \A r \in Reqs :
        (/\ Outgoing(r) /\ Done(r) /\ ResolvedBeforeTimer(r)
         /\ next[r].result.type = "Fulfill"
         /\ SHA256(next[r].result.fulfillment)
                = request[r].prepare.execution_condition)
            => /\ outcome[r].result = next[r].result
               /\ next[r].calls = 1

\* C8 witness: a matching Fulfill arrived before the timer fired, the timer
\* elapsed before the caller polled, and the Fulfill was delivered.
C8_Witness ==
    \E r \in Reqs :
        /\ Outgoing(r) /\ Done(r) /\ ResolvedBeforeTimer(r)
        /\ outcome[r].result.type = "Fulfill"
        /\ outcome[r].late

\* C9: when the downstream resolves with a Reject before the timer fires,
\* send_request returns that Reject unchanged.
C9_RejectPassedThrough ==
    \A r \in Reqs :
        (/\ Outgoing(r) /\ Done(r) /\ ResolvedBeforeTimer(r)
         /\ next[r].result.type = "Reject")
            => outcome[r].result = next[r].result

\* C9 witness: the downstream's own Reject was delivered with its fields.
C9_Witness ==
    \E r \in Reqs :
        /\ Outgoing(r) /\ Done(r) /\ ResolvedBeforeTimer(r)
        /\ next[r].result = PeerReject
        /\ outcome[r].result.message = "peer timed out"

\* C10: a send_request call that reaches the downstream handler arms exactly
\* one timer, whose duration is time_left = expires_at - now (also above 30
\* seconds); the 30-second fallback is used only when the conversion of
\* time_left fails, and no timer is armed for time_left <= 0.
C10_TimerDurationIsTimeLeft ==
    \A r \in Reqs :
        (Outgoing(r) /\ Called(r)) =>
            /\ next[r].calls \in {0, 1}
            /\ timer[r].armed = next[r].calls
            /\ next[r].calls = 1 =>
                   /\ TimeLeftAtCall(r) > 0
                   /\ timer[r].duration = TimeLeftAtCall(r)
            /\ (timer[r].armed = 1 /\ timer[r].duration # TimeLeftAtCall(r))
                   => (~ToStd(TimeLeftAtCall(r)).ok /\ timer[r].duration = FallbackSecs)
            /\ TimeLeftAtCall(r) <= 0 => timer[r] = NoTimer

\* C10 witness: a timer was armed for a time_left above the 30 seconds of the
\* fallback.
C10_Witness ==
    \E r \in Reqs :
        /\ Outgoing(r) /\ next[r].calls = 1
        /\ TimeLeftAtCall(r) > FallbackSecs
        /\ timer[r].armed = 1
        /\ timer[r].duration = TimeLeftAtCall(r)

\* What belongs to request r: its Prepare, the future returned for it, its
\* downstream call, its timer, its result and its log records.
Own(r) == <<pc[r], request[r], future[r], next[r], timer[r], outcome[r], log[r]>>

\* The result of request r as determined by its own Prepare, its own
\* downstream response and its own timer.
OwnResult(r) ==
    LET d == next[r].result
    IN IF Incoming(r)
       THEN IF TimeLeftAtCall(r) < 0 THEN TimedOutReject ELSE d
       ELSE IF TimeLeftAtCall(r) <= 0 \/ d = NoValue THEN TimedOutReject
            ELSE IF d.type = "Reject" THEN d
            ELSE IF SHA256(d.fulfillment) = request[r].prepare.execution_condition
                 THEN d ELSE InvalidFulfillmentReject

\* C11: requests in flight on the same validator do not influence each other:
\* the result of each is determined by its own Prepare, its own downstream
\* response and its own timer, and a step of one request changes nothing that
\* belongs to another request (the validator keeps no state between calls).
C11_RequestsIndependent ==
    /\ [](\A r \in Reqs :
            Done(r) =>
                /\ outcome[r].result = OwnResult(r)
                /\ (Outgoing(r) /\ TimeLeftAtCall(r) > 0 /\ next[r].result = NoValue)
                       => timer[r].state \in {"elapsed", "error"})
    /\ [][\A r \in Reqs :
            Own(r)' # Own(r) => \A q \in Reqs \ {r} : Own(q)' = Own(q)]_vars

\* C11 witness: two outgoing requests overlap; the downstream answered both
\* with the same Fulfill, which matches the condition of the first and not of
\* the second; the second was rejected with F09 while the first is in flight.
C11_Witness ==
    /\ Outgoing("r1") /\ pc["r1"] = "pending"
    /\ next["r1"].state = "ready"
    /\ next["r1"].result = FulfillBuilder(0, "test data")
    /\ PollFuture("r1").tag = "Ok"
    /\ Outgoing("r2") /\ Done("r2")
    /\ next["r2"].result = FulfillBuilder(0, "test data")
    /\ outcome["r2"].result.code = "F09_INVALID_PEER_RESPONSE"

\* C12: every result delivered to a caller is a Fulfill or a Reject, and every
\* Reject is the downstream's own (unchanged), R00 with empty message,
\* triggered_by and data, or F09 with the message "Fulfillment did not match
\* condition" and empty triggered_by and data.
C12_ResultsAreFulfillOrReject ==
    \A r \in Reqs :
        Done(r) =>
            /\ outcome[r].result.type \in {"Fulfill", "Reject"}
            /\ outcome[r].result.type = "Reject" =>
                   \/ /\ next[r].result.type = "Reject"
                      /\ outcome[r].result = next[r].result
                   \/ outcome[r].result =
                          [type |-> "Reject", code |-> "R00_TRANSFER_TIMED_OUT",
                           message |-> "", triggered_by |-> "", data |-> ""]
                   \/ outcome[r].result =
                          [type |-> "Reject", code |-> "F09_INVALID_PEER_RESPONSE",
                           message |-> "Fulfillment did not match condition",
                           triggered_by |-> "", data |-> ""]

\* C12 witness: the timer itself failed and the caller received Reject R00.
C12_Witness ==
    \E r \in Reqs :
        /\ Outgoing(r) /\ Done(r)
        /\ timer[r].state = "error"
        /\ next[r].result = NoValue
        /\ outcome[r].result.code = "R00_TRANSFER_TIMED_OUT"

\* C13: once the caller dropped the returned future, or the future resolved
\* (also by the timer firing first), neither the downstream future nor the
\* timer of the request remains pending.
C13_DropReleases ==
    \A r \in Reqs :
        pc[r] \in {"dropped", "done"} =>
            /\ next[r].state \notin {"pending", "ready"}
            /\ ~timer[r].live
            /\ pc[r] = "dropped" => outcome[r] = NoOutcome

\* C13 witness: one request was dropped while its downstream future was
\* pending and its timer armed; another timed out with the downstream future
\* still unresolved, which was then dropped.
C13_Witness ==
    \E r, q \in Reqs :
        /\ Outgoing(r) /\ pc[r] = "dropped"
        /\ next[r].calls = 1 /\ next[r].state = "dropped"
        /\ timer[r].armed = 1 /\ timer[r].state = "armed"
        /\ Outgoing(q) /\ Done(q)
        /\ timer[q].state = "elapsed"
        /\ next[q].result = NoValue /\ next[q].state = "dropped"

\* C14: every send_request call eventually resolves, also when the downstream
\* handler never resolves, provided the timer eventually fires and the
\* returned future is polled; its result is one of immediate R00, timeout R00,
\* the downstream's Reject, the downstream's Fulfill or F09; once resolved,
\* the call produces no further outcome.
C14_EventuallyResolvesOnce ==
    /\ \A r \in Reqs : (Outgoing(r) /\ Called(r)) ~> Done(r)
    /\ [](\A r \in Reqs :
            Done(r) => outcome[r].result
                           \in {TimedOutReject, InvalidFulfillmentReject} \cup Responses)
    /\ [][\A r \in Reqs :
            Done(r) => (pc'[r] = "done" /\ outcome'[r] = outcome[r])]_vars

\* C14 witness: the downstream never resolved and the call resolved to R00
\* after its timer fired.
C14_Witness ==
    \E r \in Reqs :
        /\ Outgoing(r) /\ Done(r)
        /\ next[r].calls = 1 /\ next[r].result = NoValue
        /\ timer[r].state = "elapsed"
        /\ outcome[r].result = TimedOutReject

\* The expiry pre-check of the call of request r passed.
PreCheckPassed(r) ==
    IF Incoming(r) THEN TimeLeftAtCall(r) >= 0 ELSE TimeLeftAtCall(r) > 0

\* C15: within each request the steps are pre-check, downstream, post-check:
\* the downstream handler is invoked at most once and only when the expiry
\* pre-check passed; the SHA-256 check of an outgoing request runs only after
\* the downstream resolved with a Fulfill, and no Fulfill is delivered by
\* send_request without it; incoming requests have no post-check.
C15_PreCheckDownstreamPostCheck ==
    \A r \in Reqs :
        Called(r) =>
            /\ next[r].calls <= 1
            /\ next[r].calls = 1 <=> PreCheckPassed(r)
            /\ next[r].result # NoValue => next[r].calls = 1
            /\ outcome[r].checks <= 1
            /\ outcome[r].checks = 1 =>
                   /\ Outgoing(r) /\ Done(r)
                   /\ next[r].calls = 1
                   /\ next[r].result.type = "Fulfill"
            /\ (Outgoing(r) /\ Done(r) /\ next[r].result.type = "Fulfill")
                   => outcome[r].checks = 1
            /\ (Outgoing(r) /\ outcome[r].result.type = "Fulfill")
                   => outcome[r].checks = 1
            /\ Incoming(r) => outcome[r].checks = 0

\* C15 witness: an outgoing request passed the pre-check, its downstream
\* resolved with a Fulfill, the condition was checked once and the Fulfill
\* was delivered.
C15_Witness ==
    \E r \in Reqs :
        /\ Outgoing(r) /\ Done(r) /\ PreCheckPassed(r)
        /\ next[r].calls = 1
        /\ outcome[r].checks = 1
        /\ outcome[r].result.type = "Fulfill"

\* C16: at expires_at = now the incoming validator admits the Prepare to the
\* downstream handler, the outgoing validator rejects it with R00 without
\* calling the downstream; every Prepare the outgoing validator forwards has
\* strictly positive remaining lifetime at admission.
C16_BoundaryDiffers ==
    \A r \in Reqs :
        Called(r) =>
            /\ (Incoming(r) /\ TimeLeftAtCall(r) = 0) =>
                   (next[r].calls = 1 /\ future[r].kind = "next")
            /\ (Outgoing(r) /\ TimeLeftAtCall(r) = 0) =>
                   /\ next[r].calls = 0
                   /\ future[r] = [kind |-> "err", value |-> TimedOutReject]
                   /\ Done(r) => outcome[r].result.code = "R00_TRANSFER_TIMED_OUT"
            /\ (Outgoing(r) /\ next[r].calls >= 1) => TimeLeftAtCall(r) > 0

\* C16 witness: an incoming and an outgoing request, both called with
\* expires_at = now; the first reached the downstream, the second was
\* rejected with R00.
C16_Witness ==
    \E r, q \in Reqs :
        /\ Incoming(r) /\ TimeLeftAtCall(r) = 0 /\ next[r].calls = 1
        /\ Outgoing(q) /\ TimeLeftAtCall(q) = 0 /\ Done(q)
        /\ next[q].calls = 0
        /\ outcome[q].result = TimedOutReject

\* C17: the request the downstream handler receives is the request given to
\* the validator: the same from and to accounts and the same Prepare
\* (destination, amount, expires_at, execution_condition, data).
C17_RequestForwardedUnmodified ==
    \A r \in Reqs :
        next[r].calls >= 1 =>
            /\ next[r].request.from = request[r].from
            /\ next[r].request.to = request[r].to
            /\ next[r].request.prepare = request[r].prepare
            /\ next[r].request.prepare.expires_at = request[r].prepare.expires_at
            /\ next[r].request.prepare.execution_condition = ConditionOf(r)

\* C17 witness: an incoming and an outgoing request were both forwarded.
C17_Witness ==
    \E r, q \in Reqs :
        /\ Incoming(r) /\ next[r].calls = 1
        /\ Outgoing(q) /\ next[q].calls = 1
        /\ next[q].request.to = 1

\* C18: an error of the timeout wrapper that carries no downstream Reject
\* becomes Reject R00 with empty fields, for an elapsed deadline and for a
\* failure of the timer alike: both give the same result and the same log
\* record.
C18_TimerFailureIsTimeout ==
    /\ \A r \in Reqs :
           (/\ Outgoing(r) /\ Done(r) /\ next[r].calls = 1
            /\ next[r].result = NoValue)
               => /\ timer[r].state \in {"elapsed", "error"}
                  /\ outcome[r].result = TimedOutReject
                  /\ log[r] = 1
    /\ \A r, q \in Reqs :
           (/\ Outgoing(r) /\ Done(r) /\ next[r].result = NoValue
            /\ Outgoing(q) /\ Done(q) /\ next[q].result = NoValue
            /\ timer[r].state = "error" /\ timer[q].state = "elapsed")
               => (outcome[r].result = outcome[q].result /\ log[r] = log[q])

\* C18 witness: the timer of one request failed and the deadline of another
\* elapsed; both callers received R00.
C18_Witness ==
    \E r, q \in Reqs :
        /\ Outgoing(r) /\ Done(r) /\ next[r].result = NoValue
        /\ Outgoing(q) /\ Done(q) /\ next[q].result = NoValue
        /\ timer[r].state = "error" /\ timer[q].state = "elapsed"
        /\ outcome[r].result = TimedOutReject

\* The result of request r is the downstream's, passed through.
PassedThrough(r) ==
    next[r].result # NoValue /\ outcome[r].result = next[r].result

\* C19: a Reject built by a validator (incoming expired, outgoing expired,
\* outgoing timed out, fulfillment mismatch) comes with exactly one error
\* log record; a result passed through from the downstream comes with none.
C19_OneLogPerOwnReject ==
    \A r \in Reqs :
        /\ Done(r) => log[r] = IF PassedThrough(r) THEN 0 ELSE 1
        /\ (Called(r) /\ ~Done(r)) =>
               log[r] = IF future[r].kind = "err" THEN 1 ELSE 0
        /\ ~Called(r) => log[r] = 0

\* C19 witness: one request was rejected with F09 and logged once, another
\* passed the downstream's Reject through and logged nothing.
C19_Witness ==
    \E r, q \in Reqs :
        /\ Done(r) /\ outcome[r].result = InvalidFulfillmentReject /\ log[r] = 1
        /\ Done(q) /\ outcome[q].result = PeerReject /\ log[q] = 0

\* The order in which main consults the sources.
SourceOrder == <<"env", "stdin", "file", "args">>

\* The source gives the setting a value.
Defines(source, leaf) ==
    CASE source = "env" ->
            leaf \in inputs.env \/ (leaf = "ilp_address" /\ "address" \in inputs.env)
      [] source = "stdin" ->
            inputs.stdin.status = "parsed" /\ leaf \in inputs.stdin.keys
      [] source = "file" ->
            inputs.file.status = "parsed" /\ leaf \in inputs.file.keys
      [] OTHER ->
            inputs.argv.matches = "ok" /\ leaf \in inputs.argv.args \cup Defaults

\* The first source, in the order of main, that defines the setting.
FirstSource(leaf) ==
    IF \E i \in DOMAIN SourceOrder : Defines(SourceOrder[i], leaf)
    THEN LET i == CHOOSE i \in DOMAIN SourceOrder :
                      /\ Defines(SourceOrder[i], leaf)
                      /\ \A j \in 1..(i - 1) : ~Defines(SourceOrder[j], leaf)
         IN SourceOrder[i]
    ELSE Missing.from

\* The configuration is assembled: merge_args has returned.
Assembled == main_pc \in {"merged", "serving", "panicked"}

\* C20: the sources are merged in the order environment, stdin, config file,
\* command-line arguments, and once the configuration is assembled every
\* setting has the value of the first source in that order that defines it.
C20_FirstDefiningSourceWins ==
    /\ \A i, j \in DOMAIN merged :
           i < j => \E a, b \in DOMAIN SourceOrder :
                        a < b /\ merged[i] = SourceOrder[a] /\ merged[j] = SourceOrder[b]
    /\ Assembled => \A leaf \in Leaves : Get(config, leaf).from = FirstSource(leaf)

\* Lines output_config_error can print.
ErrorReports ==
    {output_config_error(e, path) :
        e \in {"PathParse", "Foreign"}, path \in {NoConfigPath, "ilp-node", "config.json"}}

\* The events of main so far that are in the set.
EffectsIn(set) == {i \in DOMAIN effects : effects[i] \in set}

\* merge_std_in was called and returned an error.
StdinMergeFailed ==
    /\ inputs.argv.precheck = "ok"
    /\ inputs.stdin.status = "invalid_key"
    /\ main_pc \notin {"main", "precheck", "stdin"}

\* merge_config_file was called and returned an error.
FileMergeFailed ==
    /\ inputs.argv.precheck = "ok"
    /\ inputs.stdin.status # "invalid_key"
    /\ inputs.file.status \in {"unreadable", "unreadable_ilp_node", "invalid_key"}
    /\ main_pc \notin {"main", "precheck", "stdin", "file"}

\* C21: when merging stdin or the config file returns an error, main prints
\* one report and returns: the final arguments are not parsed and serve is
\* not called; and once serve has succeeded main does not return.
C21_MergeErrorStopsMain ==
    /\ (StdinMergeFailed \/ FileMergeFailed) =>
           /\ main_pc = "returned"
           /\ Cardinality(EffectsIn(ErrorReports)) = 1
           /\ effects[Len(effects)] \in ErrorReports
           /\ EffectsIn({"get_matches", "try_into", "serve"}) = {}
           /\ "args" \notin {merged[i] : i \in DOMAIN merged}
    /\ EffectsIn({"serve Ok"}) # {} => main_pc = "serving"
    /\ main_pc = "serving" <=> EffectsIn({"serve Ok"}) # {}

\* C21 witness: the config file could not be merged after stdin was; main
\* printed the error and returned.
C21_Witness ==
    /\ FileMergeFailed
    /\ merged = <<"env", "stdin", "file">>
    /\ main_pc = "returned"
    /\ effects = <<"println: Error">>

====
